---- MODULE Spec2Model ----
(***************************************************************************)
(* Model of the delegator income report (src/get_delegator_income.py):     *)
(* the paginated round query, the retried snapshot fetch, the round walk   *)
(* that turns pending stake / pending fee snapshots into income rows, and  *)
(* the merge of those rows with the event rows into one ledger with        *)
(* cumulative balances.                                                    *)
(*                                                                         *)
(* Amounts are integers (units of the asset); the code's floats are        *)
(* abstracted to exact arithmetic.  A row's timestamp is the unix second:  *)
(* the code formats it as "%Y-%m-%d %H:%M:%S" in UTC, a fixed-width string *)
(* whose lexicographic order is the order of the seconds, and the model    *)
(* only ever orders timestamps.                                            *)
(***************************************************************************)
EXTENDS Integers, Sequences, FiniteSets, TLC

VARIABLES
    pc,                      \* position of the run in __main__ / the callee
    indexed,                 \* number of rounds the index holds in the window
    chain_events,            \* rows the event sources hold for the window
    starting_eth_balance, starting_lpt_balance,
    end_eth_balance, end_lpt_balance,
    rounds,                  \* result of fetch_rounds_in_timeframe
    requests,                \* the "skip" offsets requested, in order
    rounds_error,            \* TRUE iff a page request raised
    starting_delegator_info, ending_delegator_info,
    starting_pending_stake, starting_pending_fees,
    fdi_ret,                 \* where fetch_delegator_info returns to
    fdi_attempts,            \* tenacity's attempt number of the current call
    fdi_error,               \* what the last call's attempt tripped on
    delegator_info,          \* value returned by the last call
    ri,                      \* index of the round being walked
    previous_pending_stake, previous_pending_fees,
    rows,                    \* rows of process_delegator_balances_over_rounds
    round_infos,             \* per walked round, the snapshot it obtained
    reward_data, fee_data, bond_data, unbond_data, transfer_bond_data,
    wallet_transfers,
    combined_df,             \* the merged ledger
    ledger,                  \* get_delegator_balance: the wallet, block by block
    timestamp,               \* get_delegator_balance: the second asked about
    balances                 \* get_delegator_balance: the report

vars == <<pc, indexed, chain_events, starting_eth_balance, starting_lpt_balance,
          end_eth_balance, end_lpt_balance, rounds, requests, rounds_error,
          starting_delegator_info, ending_delegator_info,
          starting_pending_stake, starting_pending_fees,
          fdi_ret, fdi_attempts, fdi_error, delegator_info,
          ri, previous_pending_stake, previous_pending_fees, rows, round_infos,
          reward_data, fee_data, bond_data, unbond_data, transfer_bond_data,
          wallet_transfers, combined_df, ledger, timestamp, balances>>

(***************************************************************************)
(* Program constants and bounds of the model.                              *)
(***************************************************************************)
First == 1000
StopAfterAttempt == 5

MaxRounds == 2
MaxStake == 1
MaxFees == 1
MaxBal == 1
MaxTs == 1
MaxEvents == 1
MaxIndexed == 2001
MaxPages == 3
MaxBlock == 2

Max(a, b) == IF a >= b THEN a ELSE b
Min(a, b) == IF a <= b THEN a ELSE b

\* Python's None for a delegator snapshot, as a record of the same shape.
None == [ok |-> FALSE, pending_stake |-> 0, pending_fees |-> 0]

(***************************************************************************)
(* The index service: the rounds of the window in ascending start          *)
(* timestamp (ROUNDS_QUERY orders by startTimestamp asc), served by        *)
(* offset ("skip") and page size ("first").                                *)
(***************************************************************************)
IndexedRounds(n) == [k \in 1..n |-> [id |-> k, startTimestamp |-> k]]

ROUNDS_QUERY(n, first, skip) ==
    SubSeq(IndexedRounds(n), skip + 1, Min(skip + first, n))

LastPage_Inclusive(page, first) == Len(page) <= first

\* len(rounds) < variables["first"]: the loop's exit test.
LastPage(page, first) == Len(page) < first

OnRequestError_Discard(all_rounds) == <<>>

\* Lines 171-174: the except branch prints, breaks, and the function returns
\* what was gathered so far.
OnRequestError(all_rounds) == all_rounds

(***************************************************************************)
(* fetch_rounds_in_timeframe: the while loop, as a recursion over the      *)
(* pages.  failAt is the number of the request that raises (0: none).      *)
(* Returns the rounds gathered, the offsets requested, and whether a       *)
(* request raised.                                                         *)
(***************************************************************************)
RECURSIVE RoundsLoop(_, _, _, _, _)
RoundsLoop(n, skip, all_rounds, reqs, failAt) ==
    LET asked == Append(reqs, skip) IN
    IF Len(asked) = failAt
    THEN [rounds |-> OnRequestError(all_rounds), requests |-> asked, error |-> TRUE]
    ELSE LET page == ROUNDS_QUERY(n, First, skip) IN
         IF LastPage(page, First)
         THEN [rounds |-> all_rounds \o page, requests |-> asked, error |-> FALSE]
         ELSE RoundsLoop(n, skip + First, all_rounds \o page, asked, failAt)

fetch_rounds_in_timeframe(n, failAt) == RoundsLoop(n, 0, <<>>, <<>>, failAt)

(***************************************************************************)
(* fetch_delegator_info.  The body is wrapped in try/except Exception,     *)
(* so whatever the reads do the body returns (the dict, or None after      *)
(* printing the error); the tenacity wrapper retries only when the body    *)
(* raises.                                                                 *)
(***************************************************************************)
FdiBody(getDelegatorRaises, pendingRaises, stake, fees) ==
    IF getDelegatorRaises
    THEN [raised |-> FALSE, value |-> None, error |-> "getDelegator"]
    ELSE IF pendingRaises
    THEN [raised |-> FALSE, value |-> None, error |-> "pending"]
    ELSE [raised |-> FALSE,
          value |-> [ok |-> TRUE, pending_stake |-> stake, pending_fees |-> fees],
          error |-> "none"]

\* retry(stop=stop_after_attempt(5), retry=retry_if_exception_type(Exception))
RetryAgain(out, attempt) == out.raised /\ attempt < StopAfterAttempt

(***************************************************************************)
(* Rows.  Event rows come from the event sources of get_orch_income; the   *)
(* staking columns they lack are 0 here (NaN after the concat).            *)
(***************************************************************************)
Row(ts, rnd, dir, typ, cur, amt, pr, pf, ar, af, src) ==
    [timestamp |-> ts, round |-> rnd, direction |-> dir, type |-> typ,
     currency |-> cur, amount |-> amt, pending_rewards |-> pr,
     pending_fees |-> pf, accumulated_rewards |-> ar,
     accumulated_fees |-> af, source |-> src]

(***************************************************************************)
(* fetch_crypto_price of get_orch_income: the historical price of an asset *)
(* at a unix second.  The table gives every asset and second its own       *)
(* price.  A lookup answers with the price, raises, or answers with no     *)
(* price (None).                                                           *)
(***************************************************************************)
PriceTable(symbol, ts) == (IF symbol = "LPT" THEN 10 ELSE 100) + ts

PriceOutcomes == {"ok", "raises", "none"}

fetch_crypto_price(symbol, ts, outcome) ==
    [raised |-> outcome = "raises",
     null |-> outcome = "none",
     price |-> IF outcome = "ok" THEN PriceTable(symbol, ts) ELSE 0]

\* The price and value columns of a row: price, and amount * price.
Priced(row, price) == [price |-> price, value |-> row.amount * price] @@ row

EventRow(typ, ts, dir, cur, amt) ==
    Priced(Row(ts, 0, dir, typ, cur, amt, 0, 0, 0, 0, typ), PriceTable(cur, ts))

Directions == {"incoming", "outgoing"}

BondRows ==
    {EventRow("bond", t, d, "LPT", a) : t \in 1..MaxTs, d \in Directions, a \in 1..MaxBal}
UnbondRows ==
    {EventRow("unbond", t, d, "LPT", a) : t \in 1..MaxTs, d \in Directions, a \in 1..MaxBal}
TransferBondRows ==
    {EventRow("transfer bond", t, d, "LPT", a) :
        t \in 1..MaxTs, d \in Directions, a \in 1..MaxBal}
WalletRows ==
    UNION {{EventRow("transfer", t, d, c, a) :
                t \in 1..MaxTs, d \in Directions, a \in 1..MaxBal} : c \in {"ETH", "LPT"}}

Opt(S) == {<<>>} \cup {<<r>> : r \in S}

AllEvents(w) == w.bond \o w.unbond \o w.transfer_bond \o w.wallet

Signed(r, cur) ==
    IF r.currency # cur THEN 0
    ELSE IF r.direction = "incoming" THEN r.amount ELSE 0 - r.amount

RECURSIVE Net(_, _)
Net(rs, cur) == IF rs = <<>> THEN 0 ELSE Signed(Head(rs), cur) + Net(Tail(rs), cur)

NoEvents == [bond |-> <<>>, unbond |-> <<>>, transfer_bond |-> <<>>, wallet |-> <<>>]

\* The event histories a window can hold, within the bounds.
Worlds ==
    {w \in [bond : Opt(BondRows), unbond : Opt(UnbondRows),
            transfer_bond : Opt(TransferBondRows), wallet : Opt(WalletRows)] :
        Len(AllEvents(w)) <= MaxEvents}

(***************************************************************************)
(* Initial state: the state of __main__ after the prompts, the block       *)
(* lookups and the four wallet balance reads.  The wallet's balance at the *)
(* end block is its balance at the start block plus the net of the         *)
(* transfers the window's events record; pending stake and pending fees    *)
(* are held by the bonding manager, not by the wallet.                     *)
(***************************************************************************)
\* The income run makes no balance report.
NoReport == [eth_balance |-> 0, eth_value |-> 0,
             lpt_unbonded_balance |-> 0, lpt_unbonded_value |-> 0,
             eth_unclaimed_fees |-> 0, eth_unclaimed_fees_value |-> 0,
             lpt_bonded_balance |-> 0, lpt_bonded_value |-> 0,
             total_wallet_value |-> 0]

NoBalanceRun == ledger = <<>> /\ timestamp = 0 /\ balances = NoReport

InitCommon ==
    /\ pc = "fetch_rounds"
    /\ NoBalanceRun
    /\ rounds = <<>> /\ requests = <<>> /\ rounds_error = FALSE
    /\ starting_delegator_info = None /\ ending_delegator_info = None
    /\ starting_pending_stake = 0 /\ starting_pending_fees = 0
    /\ fdi_ret = "" /\ fdi_attempts = 0 /\ fdi_error = "none"
    /\ delegator_info = None
    /\ ri = 1 /\ previous_pending_stake = 0 /\ previous_pending_fees = 0
    /\ rows = <<>> /\ round_infos = <<>>
    /\ reward_data = <<>> /\ fee_data = <<>> /\ bond_data = <<>>
    /\ unbond_data = <<>> /\ transfer_bond_data = <<>>
    /\ wallet_transfers = <<>> /\ combined_df = <<>>

Init ==
    /\ InitCommon
    /\ indexed \in 0..MaxRounds
    /\ chain_events \in Worlds
    /\ starting_eth_balance \in 0..MaxBal
    /\ starting_lpt_balance \in 0..MaxBal
    /\ end_eth_balance = starting_eth_balance + Net(AllEvents(chain_events), "ETH")
    /\ end_lpt_balance = starting_lpt_balance + Net(AllEvents(chain_events), "LPT")
    /\ end_eth_balance >= 0 /\ end_lpt_balance >= 0

\* The paginated query alone, over windows that span several pages.
InitPaging ==
    /\ InitCommon
    /\ indexed \in 0..MaxIndexed
    /\ chain_events = NoEvents
    /\ starting_eth_balance = 0 /\ starting_lpt_balance = 0
    /\ end_eth_balance = 0 /\ end_lpt_balance = 0

balanceVars == <<ledger, timestamp, balances>>
envVars == <<indexed, chain_events, starting_eth_balance, starting_lpt_balance,
             end_eth_balance, end_lpt_balance>>
roundsVars == <<rounds, requests, rounds_error>>
boundaryVars == <<starting_delegator_info, ending_delegator_info,
                  starting_pending_stake, starting_pending_fees>>
fdiVars == <<fdi_ret, fdi_attempts, fdi_error, delegator_info>>
walkVars == <<ri, previous_pending_stake, previous_pending_fees, rows, round_infos>>
dataVars == <<reward_data, fee_data, bond_data, unbond_data, transfer_bond_data,
              wallet_transfers, combined_df>>

(***************************************************************************)
(* __main__, lines 460-481: the rounds of the window and the two boundary  *)
(* snapshots.                                                              *)
(***************************************************************************)
FetchRounds ==
    /\ pc = "fetch_rounds"
    /\ \E failAt \in 0..MaxPages :
          LET res == fetch_rounds_in_timeframe(indexed, failAt) IN
          /\ rounds' = res.rounds
          /\ requests' = res.requests
          /\ rounds_error' = res.error
    /\ pc' = "start_info"
    /\ UNCHANGED <<balanceVars, envVars, boundaryVars, fdiVars, walkVars, dataVars>>

\* A call of fetch_delegator_info that returns to `ret`.
CallFdi(ret) ==
    /\ pc' = "fdi"
    /\ fdi_ret' = ret
    /\ fdi_attempts' = 0
    /\ fdi_error' = "none"
    /\ UNCHANGED delegator_info

\* The value a boundary's pending amount takes: info[...] if info else 0.
OrZero(info, field) == IF info.ok THEN info[field] ELSE 0

\* starting_delegator_info = fetch_delegator_info(...) if start_round else None
StartInfo ==
    /\ pc = "start_info"
    /\ IF rounds # <<>>
       THEN /\ CallFdi("start_info_ret")
            /\ UNCHANGED boundaryVars
       ELSE /\ pc' = "end_info"
            /\ starting_delegator_info' = None
            /\ starting_pending_stake' = OrZero(None, "pending_stake")
            /\ starting_pending_fees' = OrZero(None, "pending_fees")
            /\ UNCHANGED <<ending_delegator_info, fdiVars>>
    /\ UNCHANGED <<balanceVars, envVars, roundsVars, walkVars, dataVars>>

StartInfoRet ==
    /\ pc = "start_info_ret"
    /\ starting_delegator_info' = delegator_info
    /\ starting_pending_stake' = OrZero(delegator_info, "pending_stake")
    /\ starting_pending_fees' = OrZero(delegator_info, "pending_fees")
    /\ pc' = "end_info"
    /\ UNCHANGED <<balanceVars, envVars, roundsVars, ending_delegator_info, fdiVars, walkVars,
                   dataVars>>

EndInfo ==
    /\ pc = "end_info"
    /\ CallFdi("end_info_ret")
    /\ UNCHANGED <<balanceVars, envVars, roundsVars, boundaryVars, walkVars, dataVars>>

EndInfoRet ==
    /\ pc = "end_info_ret"
    /\ ending_delegator_info' = delegator_info
    /\ pc' = "process_rounds"
    /\ UNCHANGED <<balanceVars, envVars, roundsVars, starting_delegator_info,
                   starting_pending_stake, starting_pending_fees, fdiVars,
                   walkVars, dataVars>>

(***************************************************************************)
(* One attempt of fetch_delegator_info under the tenacity wrapper: the     *)
(* ledger makes the getDelegator read and the pending reads raise or       *)
(* answer.  The wrapper calls the body again while it raises and attempts  *)
(* remain, re-raises when they are used up, and otherwise hands the        *)
(* body's value to the caller.                                             *)
(***************************************************************************)
FetchDelegatorInfo ==
    /\ pc = "fdi"
    /\ \E gd \in BOOLEAN, pr \in BOOLEAN, stake \in 0..MaxStake, fees \in 0..MaxFees :
          LET out == FdiBody(gd, pr, stake, fees)
              attempt == fdi_attempts + 1
          IN  /\ fdi_attempts' = attempt
              /\ fdi_error' = out.error
              /\ IF RetryAgain(out, attempt)
                 THEN pc' = "fdi" /\ UNCHANGED delegator_info
                 ELSE IF out.raised
                 THEN pc' = "crashed" /\ UNCHANGED delegator_info
                 ELSE pc' = fdi_ret /\ delegator_info' = out.value
    /\ UNCHANGED <<balanceVars, envVars, roundsVars, boundaryVars, fdi_ret, walkVars, dataVars>>

(***************************************************************************)
(* process_delegator_balances_over_rounds.                                 *)
(***************************************************************************)
Accumulated_Swapped(current, start) == Max(0, start - current)

Accumulated_Unclamped(current, start) == current - start

\* Lines 217-218: income accumulated since the start of the window.
Accumulated(current, start) == Max(0, current - start)

\* Lines 219-220: income of the round.
Income(current, previous) == Max(0, current - previous)

Emits_OnZero(income) == income >= 0

\* Lines 234 and 248: a row is added for an income greater than zero.
Emits(income) == income > 0

RoundPriceKey_WindowStart(round_data) == 0

\* Lines 201, 235 and 249: the second the round's prices are looked up at.
RoundPriceKey(round_data) == round_data.startTimestamp

\* Lines 210-261: the rows one processed round adds.
RoundRows(round_data, info, start_stake, start_fees, prev_stake, prev_fees) ==
    LET current_pending_stake == info.pending_stake
        current_pending_fees == info.pending_fees
        accumulated_rewards == Accumulated(current_pending_stake, start_stake)
        accumulated_fees == Accumulated(current_pending_fees, start_fees)
        reward_income == Income(current_pending_stake, prev_stake)
        fee_income == Income(current_pending_fees, prev_fees)
        lpt_price == fetch_crypto_price("LPT", RoundPriceKey(round_data), "ok").price
        eth_price == fetch_crypto_price("ETH", RoundPriceKey(round_data), "ok").price
        reward_row == Priced(Row(round_data.startTimestamp, round_data.id, "incoming",
                                 "pending rewards", "LPT", reward_income,
                                 current_pending_stake, current_pending_fees,
                                 accumulated_rewards, accumulated_fees,
                                 "pendingStake"),
                             lpt_price)
        fee_row == Priced(Row(round_data.startTimestamp, round_data.id, "incoming",
                              "pending fees", "ETH", fee_income,
                              current_pending_stake, current_pending_fees,
                              accumulated_rewards, accumulated_fees, "pendingFees"),
                          eth_price)
    IN  (IF Emits(reward_income) THEN <<reward_row>> ELSE <<>>)
        \o (IF Emits(fee_income) THEN <<fee_row>> ELSE <<>>)

\* Lines 234-235 and 248-249: the assets whose price the round looks up.
RoundLookups(info, prev_stake, prev_fees) ==
    (IF Emits(Income(info.pending_stake, prev_stake)) THEN {"LPT"} ELSE {})
    \cup (IF Emits(Income(info.pending_fees, prev_fees)) THEN {"ETH"} ELSE {})

\* Lines 235-243 and 249-257 stand in no try block: a lookup that raises
\* ends the walk with its exception, and one that answers None ends it with
\* the TypeError of income * None.
RoundAborts(lookups, lpt, eth) ==
    \/ "LPT" \in lookups /\ (lpt.raised \/ lpt.null)
    \/ "ETH" \in lookups /\ (eth.raised \/ eth.null)

NextPrevious_Stale(info, field) ==
    IF field = "pending_stake" THEN previous_pending_stake
                               ELSE previous_pending_fees

\* Lines 263-264: what the next round's income is measured against.
NextPrevious(info, field) == info[field]

SkipPrevious_Reset(prev) == 0

\* Lines 205-209: a round without block hash or without snapshot is passed over.
SkipPrevious(prev) == prev

\* Lines 196-198.
ProcessRounds ==
    /\ pc = "process_rounds"
    /\ rows' = <<>>
    /\ round_infos' = <<>>
    /\ ri' = 1
    /\ previous_pending_stake' = starting_pending_stake
    /\ previous_pending_fees' = starting_pending_fees
    /\ pc' = "round_loop"
    /\ UNCHANGED <<balanceVars, envVars, roundsVars, boundaryVars, fdiVars, dataVars>>

\* Lines 199-206: the next round's block hash, or the end of the walk.
RoundBlockHash ==
    /\ pc = "round_loop"
    /\ ri <= Len(rounds)
    /\ \E block_hash \in BOOLEAN :
          IF ~block_hash
          THEN /\ ri' = ri + 1
               /\ round_infos' = Append(round_infos, None)
               /\ previous_pending_stake' = SkipPrevious(previous_pending_stake)
               /\ previous_pending_fees' = SkipPrevious(previous_pending_fees)
               /\ pc' = "round_loop"
               /\ UNCHANGED <<rows, fdiVars>>
          ELSE /\ CallFdi("round_info_ret")
               /\ UNCHANGED walkVars
    /\ UNCHANGED <<balanceVars, envVars, roundsVars, boundaryVars, dataVars>>

\* Lines 207-264: the round's snapshot has returned.
RoundProcess ==
    /\ pc = "round_info_ret"
    /\ IF ~delegator_info.ok
       THEN /\ rows' = rows
            /\ previous_pending_stake' = SkipPrevious(previous_pending_stake)
            /\ previous_pending_fees' = SkipPrevious(previous_pending_fees)
            /\ round_infos' = Append(round_infos, delegator_info)
            /\ ri' = ri + 1
            /\ pc' = "round_loop"
       ELSE \E lpt_outcome \in PriceOutcomes, eth_outcome \in PriceOutcomes :
            LET key == RoundPriceKey(rounds[ri])
                lookups == RoundLookups(delegator_info, previous_pending_stake,
                                        previous_pending_fees)
            IN  IF RoundAborts(lookups,
                               fetch_crypto_price("LPT", key, lpt_outcome),
                               fetch_crypto_price("ETH", key, eth_outcome))
                THEN /\ pc' = "price_error"
                     /\ UNCHANGED walkVars
                ELSE /\ rows' = rows \o RoundRows(rounds[ri], delegator_info,
                                                  starting_pending_stake,
                                                  starting_pending_fees,
                                                  previous_pending_stake,
                                                  previous_pending_fees)
                     /\ previous_pending_stake' =
                            NextPrevious(delegator_info, "pending_stake")
                     /\ previous_pending_fees' =
                            NextPrevious(delegator_info, "pending_fees")
                     /\ round_infos' = Append(round_infos, delegator_info)
                     /\ ri' = ri + 1
                     /\ pc' = "round_loop"
    /\ UNCHANGED <<balanceVars, envVars, roundsVars, boundaryVars, fdiVars, dataVars>>

\* Line 265 and lines 518-522: the walk returns pd.DataFrame(rows) and
\* __main__ selects on its "transaction type" column.  A frame built from
\* no rows has no columns, and the selection raises KeyError.
HasColumn(frame) == frame # <<>>

OfType(frame, typ) == SelectSeq(frame, LAMBDA r : r.type = typ)

RoundsDone ==
    /\ pc = "round_loop"
    /\ ri > Len(rounds)
    /\ IF HasColumn(rows)
       THEN /\ reward_data' = OfType(rows, "pending rewards")
            /\ fee_data' = OfType(rows, "pending fees")
            /\ pc' = "bond_events"
       ELSE /\ pc' = "crashed"
            /\ UNCHANGED <<reward_data, fee_data>>
    /\ UNCHANGED <<balanceVars, envVars, roundsVars, boundaryVars, fdiVars, walkVars, bond_data,
                   unbond_data, transfer_bond_data, wallet_transfers, combined_df>>

(***************************************************************************)
(* Lines 524-564: the four event sources, each a fetch and process pair    *)
(* of get_orch_income that yields the rows of its category.                *)
(***************************************************************************)
fetch_and_process_events(w, category) == w[category]

BondEvents ==
    /\ pc = "bond_events"
    /\ bond_data' = fetch_and_process_events(chain_events, "bond")
    /\ pc' = "unbond_events"
    /\ UNCHANGED <<balanceVars, envVars, roundsVars, boundaryVars, fdiVars, walkVars, reward_data,
                   fee_data, unbond_data, transfer_bond_data, wallet_transfers,
                   combined_df>>

UnbondEvents ==
    /\ pc = "unbond_events"
    /\ unbond_data' = fetch_and_process_events(chain_events, "unbond")
    /\ pc' = "transfer_bond_events"
    /\ UNCHANGED <<balanceVars, envVars, roundsVars, boundaryVars, fdiVars, walkVars, reward_data,
                   fee_data, bond_data, transfer_bond_data, wallet_transfers,
                   combined_df>>

TransferBondEvents ==
    /\ pc = "transfer_bond_events"
    /\ transfer_bond_data' = fetch_and_process_events(chain_events, "transfer_bond")
    /\ pc' = "wallet_transactions"
    /\ UNCHANGED <<balanceVars, envVars, roundsVars, boundaryVars, fdiVars, walkVars, reward_data,
                   fee_data, bond_data, unbond_data, wallet_transfers, combined_df>>

WalletTransactions ==
    /\ pc = "wallet_transactions"
    /\ wallet_transfers' = fetch_and_process_events(chain_events, "wallet")
    /\ pc' = "merge"
    /\ UNCHANGED <<balanceVars, envVars, roundsVars, boundaryVars, fdiVars, walkVars, reward_data,
                   fee_data, bond_data, unbond_data, transfer_bond_data, combined_df>>

(***************************************************************************)
(* Lines 565-581: the merge.                                               *)
(***************************************************************************)
RECURSIVE Concat(_)
Concat(frames) == IF frames = <<>> THEN <<>> ELSE Head(frames) \o Concat(Tail(frames))

NonEmpty(frames) == SelectSeq(frames, LAMBDA df : df # <<>>)

\* pd.concat(..., ignore_index=True): the rows numbered 0, 1, 2, ... in the
\* order of the concatenation; the number is the frame's index label and
\* stays with the row through the sort.
concat(frames) ==
    LET all == Concat(frames)
    IN  [i \in 1..Len(all) |-> [index |-> i - 1] @@ all[i]]

\* The positions of `left` whose timestamp is the least.
Earliest(df, left) ==
    {i \in left : \A j \in left : df[i].timestamp <= df[j].timestamp}

\* Every order of the positions `left` that ascends in timestamp.
RECURSIVE Ascending(_, _)
Ascending(df, left) ==
    IF left = {} THEN {<<>>}
    ELSE UNION {{<<df[i]>> \o rest : rest \in Ascending(df, left \ {i})} :
                   i \in Earliest(df, left)}

\* DataFrame.sort_values(by="timestamp") with the default kind="quicksort",
\* which pandas documents as not stable: the result ascends in timestamp and
\* rows of equal timestamp come in an order the build decides.  (numpy's
\* quicksort sorts runs of up to 16 elements by insertion and reorders equal
\* keys in longer ones; the frames here are far shorter, so the order of
\* ties is left open at every length.)
sort_values(df) == Ascending(df, DOMAIN df)

ExitNoData(frames) == NonEmpty(frames) = <<>>

Merge ==
    /\ pc = "merge"
    /\ LET all_dataframes == <<reward_data, fee_data, bond_data, unbond_data,
                               transfer_bond_data, wallet_transfers>>
       IN  IF ExitNoData(all_dataframes)
           THEN pc' = "exit_no_data" /\ UNCHANGED combined_df
           ELSE /\ combined_df' \in sort_values(concat(NonEmpty(all_dataframes)))
                /\ pc' = "cumulative"
    /\ UNCHANGED <<balanceVars, envVars, roundsVars, boundaryVars, fdiVars, walkVars, reward_data,
                   fee_data, bond_data, unbond_data, transfer_bond_data,
                   wallet_transfers>>

(***************************************************************************)
(* Lines 583-588: add_cumulative_balances of get_orch_income: one forward  *)
(* pass with two running totals seeded from the starting balances; an      *)
(* incoming row adds its amount to the total of its currency, an outgoing  *)
(* row subtracts it, and both totals are stamped on every row.             *)
(***************************************************************************)
RECURSIVE CumulativePass(_, _, _)
CumulativePass(df, eth, lpt) ==
    IF df = <<>> THEN <<>>
    ELSE LET r == Head(df)
             eth2 == eth + Signed(r, "ETH")
             lpt2 == lpt + Signed(r, "LPT")
         IN  <<[cumulative_eth |-> eth2, cumulative_lpt |-> lpt2] @@ r>>
             \o CumulativePass(Tail(df), eth2, lpt2)

add_cumulative_balances(df, eth, lpt) == CumulativePass(df, eth, lpt)

Cumulative ==
    /\ pc = "cumulative"
    /\ combined_df' = add_cumulative_balances(combined_df, starting_eth_balance,
                                              starting_lpt_balance)
    /\ pc' = "export"
    /\ UNCHANGED <<balanceVars, envVars, roundsVars, boundaryVars, fdiVars, walkVars, reward_data,
                   fee_data, bond_data, unbond_data, transfer_bond_data,
                   wallet_transfers>>

\* Lines 590-624: the overview and the export.
Export ==
    /\ pc = "export"
    /\ pc' = "done"
    /\ UNCHANGED <<balanceVars, envVars, roundsVars, boundaryVars, fdiVars, walkVars, dataVars>>

Next ==
    \/ FetchRounds
    \/ StartInfo
    \/ StartInfoRet
    \/ EndInfo
    \/ EndInfoRet
    \/ FetchDelegatorInfo
    \/ ProcessRounds
    \/ RoundBlockHash
    \/ RoundProcess
    \/ RoundsDone
    \/ BondEvents
    \/ UnbondEvents
    \/ TransferBondEvents
    \/ WalletTransactions
    \/ Merge
    \/ Cumulative
    \/ Export

Spec == Init /\ [][Next]_vars

(***************************************************************************)
(* The round walk alone: process_delegator_balances_over_rounds entered    *)
(* with every window of rounds and every pair of window-start amounts the  *)
(* bounds allow.  The states are those __main__ reaches at line 518 after  *)
(* an end snapshot that failed; the end snapshot plays no part in the      *)
(* walk.                                                                   *)
(***************************************************************************)
Snapshots ==
    {None} \cup [ok : {TRUE}, pending_stake : 0..MaxStake, pending_fees : 0..MaxFees]

InitWalk ==
    /\ pc = "process_rounds"
    /\ NoBalanceRun
    /\ indexed \in 0..MaxRounds
    /\ rounds = fetch_rounds_in_timeframe(indexed, 0).rounds
    /\ requests = fetch_rounds_in_timeframe(indexed, 0).requests
    /\ rounds_error = FALSE
    /\ chain_events = NoEvents
    /\ starting_eth_balance = 0 /\ starting_lpt_balance = 0
    /\ end_eth_balance = 0 /\ end_lpt_balance = 0
    /\ starting_delegator_info \in (IF rounds # <<>> THEN Snapshots ELSE {None})
    /\ starting_pending_stake = OrZero(starting_delegator_info, "pending_stake")
    /\ starting_pending_fees = OrZero(starting_delegator_info, "pending_fees")
    /\ ending_delegator_info = None
    /\ fdi_ret = "end_info_ret" /\ fdi_attempts = 1 /\ fdi_error = "getDelegator"
    /\ delegator_info = None
    /\ ri = 1 /\ previous_pending_stake = 0 /\ previous_pending_fees = 0
    /\ rows = <<>> /\ round_infos = <<>>
    /\ reward_data = <<>> /\ fee_data = <<>> /\ bond_data = <<>>
    /\ unbond_data = <<>> /\ transfer_bond_data = <<>>
    /\ wallet_transfers = <<>> /\ combined_df = <<>>

NextWalk ==
    \/ ProcessRounds
    \/ RoundBlockHash
    \/ FetchDelegatorInfo
    \/ RoundProcess
    \/ RoundsDone

SpecWalk == InitWalk /\ [][NextWalk]_vars

NextPaging == FetchRounds

SpecPaging == InitPaging /\ [][NextPaging]_vars

(***************************************************************************)
(* get_delegator_balance.py.  The ledger holds the wallet's amounts block  *)
(* by block: ledger[b] is what the contracts answer for block b and for    *)
(* the round current at block b.  Block b is produced at second b, so the  *)
(* block at a timestamp is the block of that number, and the head is the   *)
(* last block.                                                             *)
(***************************************************************************)
Accounts == [eth : 0..MaxBal, lpt : 0..MaxBal,
             pending_stake : 0..MaxStake, pending_fees : 0..MaxFees]

RECURSIVE Ledgers(_)
Ledgers(n) ==
    IF n = 0 THEN {<<>>}
    ELSE {Append(l, a) : l \in Ledgers(n - 1), a \in Accounts}

InitBalance ==
    /\ pc = "balance_input"
    /\ ledger \in UNION {Ledgers(n) : n \in 1..MaxBlock}
    /\ timestamp = 0
    /\ balances = NoReport
    /\ indexed = 0 /\ chain_events = NoEvents
    /\ starting_eth_balance = 0 /\ starting_lpt_balance = 0
    /\ end_eth_balance = 0 /\ end_lpt_balance = 0
    /\ rounds = <<>> /\ requests = <<>> /\ rounds_error = FALSE
    /\ starting_delegator_info = None /\ ending_delegator_info = None
    /\ starting_pending_stake = 0 /\ starting_pending_fees = 0
    /\ fdi_ret = "" /\ fdi_attempts = 0 /\ fdi_error = "none"
    /\ delegator_info = None
    /\ ri = 1 /\ previous_pending_stake = 0 /\ previous_pending_fees = 0
    /\ rows = <<>> /\ round_infos = <<>>
    /\ reward_data = <<>> /\ fee_data = <<>> /\ bond_data = <<>>
    /\ unbond_data = <<>> /\ transfer_bond_data = <<>>
    /\ wallet_transfers = <<>> /\ combined_df = <<>>

\* Line 102: ARB_CLIENT.eth.get_block_number(), the number of the head block.
get_block_number(l) == Len(l)

\* Lines 102-140 of get_delegator_balance.py.
fetch_delegator_balances(l, ts) ==
    LET block_number == get_block_number(l)
        round_number == block_number
        eth_balance == l[block_number].eth
        lpt_unbonded_balance == l[block_number].lpt
        eth_unclaimed_fees == l[round_number].pending_fees
        lpt_bonded_balance == l[round_number].pending_stake
        eth_price == fetch_crypto_price("ETH", ts, "ok").price
        lpt_price == fetch_crypto_price("LPT", ts, "ok").price
        eth_value == eth_balance * eth_price
        lpt_unbonded_value == lpt_unbonded_balance * lpt_price
        eth_unclaimed_fees_value == eth_unclaimed_fees * eth_price
        lpt_bonded_value == lpt_bonded_balance * lpt_price
    IN  [eth_balance |-> eth_balance, eth_value |-> eth_value,
         lpt_unbonded_balance |-> lpt_unbonded_balance,
         lpt_unbonded_value |-> lpt_unbonded_value,
         eth_unclaimed_fees |-> eth_unclaimed_fees,
         eth_unclaimed_fees_value |-> eth_unclaimed_fees_value,
         lpt_bonded_balance |-> lpt_bonded_balance,
         lpt_bonded_value |-> lpt_bonded_value,
         total_wallet_value |-> eth_value + lpt_unbonded_value
                                + eth_unclaimed_fees_value + lpt_bonded_value]

\* Lines 197-205: the date and time asked about, a second of the ledger's past.
BalanceInput ==
    /\ pc = "balance_input"
    /\ timestamp' \in DOMAIN ledger
    /\ pc' = "balance_report"
    /\ UNCHANGED <<ledger, balances, envVars, roundsVars, boundaryVars, fdiVars,
                   walkVars, dataVars>>

\* Lines 207-210.
BalanceReport ==
    /\ pc = "balance_report"
    /\ balances' = fetch_delegator_balances(ledger, timestamp)
    /\ pc' = "balance_done"
    /\ UNCHANGED <<ledger, timestamp, envVars, roundsVars, boundaryVars, fdiVars,
                   walkVars, dataVars>>

NextBalance == BalanceInput \/ BalanceReport

SpecBalance == InitBalance /\ [][NextBalance]_vars

Terminated == pc \in {"done", "crashed", "exit_no_data"}

(***************************************************************************)
(* Vocabulary of the properties.                                           *)
(***************************************************************************)
\* The run has left the round walk.
WalkOver == pc \in {"bond_events", "unbond_events", "transfer_bond_events",
                    "wallet_transactions", "merge", "cumulative", "export",
                    "done", "exit_no_data", "crashed"}

\* The run is in the round walk or beyond it.
WalkBegun == WalkOver \/ pc \in {"round_loop", "round_info_ret"}
                      \/ (pc = "fdi" /\ fdi_ret = "round_info_ret")

Merged == pc \in {"cumulative", "export", "done"}

Stamped == pc \in {"export", "done"}

\* The pending amount last observed at or before walked round k, the
\* window-start amount if no round up to k gave a snapshot.
RECURSIVE LastObserved(_, _)
LastObserved(k, field) ==
    IF k = 0
    THEN (IF field = "pending_stake" THEN starting_pending_stake
                                     ELSE starting_pending_fees)
    ELSE IF round_infos[k].ok THEN round_infos[k][field]
    ELSE LastObserved(k - 1, field)

RowsOf(k, typ) == {i \in DOMAIN rows : rows[i].round = rounds[k].id /\ rows[i].type = typ}

Walked == DOMAIN round_infos

(***************************************************************************)
(* C1.  When the run reaches the merge with at least one row, the          *)
(* cumulative ETH and LPT balances on the last row of the ledger equal the *)
(* wallet's ETH and LPT balances read at the end block.                    *)
(***************************************************************************)
C1_FinalCumulativeIsEndBalance ==
    (Stamped /\ combined_df # <<>>) =>
        /\ combined_df[Len(combined_df)].cumulative_eth = end_eth_balance
        /\ combined_df[Len(combined_df)].cumulative_lpt = end_lpt_balance

(***************************************************************************)
(* C2.  A window with zero rounds and no event of any category ends in     *)
(* the "no income data" exit, with no ledger, and not in an unhandled      *)
(* error.                                                                  *)
(***************************************************************************)
C2_EmptyWindowExitsNoData ==
    (Terminated /\ indexed = 0 /\ AllEvents(chain_events) = <<>>) =>
        (pc = "exit_no_data" /\ combined_df = <<>>)

(***************************************************************************)
(* C3.  When the round walk emits no row but some event category has       *)
(* rows, the run goes on to the merge and ends with a ledger that holds    *)
(* exactly the event rows.                                                 *)
(***************************************************************************)
C3_EmptyRoundIncomeNotFatal ==
    (Terminated /\ rows = <<>> /\ AllEvents(chain_events) # <<>>) =>
        /\ pc = "done"
        /\ Len(combined_df) = Len(AllEvents(chain_events))
        /\ \A i \in DOMAIN combined_df : combined_df[i].round = 0

(***************************************************************************)
(* C4.  For every processed round, a reward row is emitted iff the round's *)
(* pending stake is strictly above the previous pending stake, and a fee   *)
(* row iff its pending fees are strictly above the previous pending fees;  *)
(* every emitted row has amount > 0 and direction incoming.                *)
(***************************************************************************)
C4_RowIffStrictRise ==
    /\ \A k \in Walked :
          round_infos[k].ok =>
             /\ (RowsOf(k, "pending rewards") # {}) <=>
                   (round_infos[k].pending_stake > LastObserved(k - 1, "pending_stake"))
             /\ (RowsOf(k, "pending fees") # {}) <=>
                   (round_infos[k].pending_fees > LastObserved(k - 1, "pending_fees"))
             /\ Cardinality(RowsOf(k, "pending rewards")) <= 1
             /\ Cardinality(RowsOf(k, "pending fees")) <= 1
    /\ \A i \in DOMAIN rows : rows[i].amount > 0 /\ rows[i].direction = "incoming"

\* A walk in which one processed round rose and emitted, and another did
\* not rise and emitted nothing.
C4_Witness ==
    /\ \E k \in Walked : round_infos[k].ok /\ RowsOf(k, "pending rewards") # {}
    /\ \E k \in Walked :
          /\ round_infos[k].ok
          /\ RowsOf(k, "pending rewards") = {} /\ RowsOf(k, "pending fees") = {}

(***************************************************************************)
(* C5 as stated.  The accumulated rewards (and accumulated fees) on the    *)
(* emitted rows are non-decreasing in round order, whatever the snapshots. *)
(***************************************************************************)
C5_AccumulatedNonDecreasing ==
    \A i, j \in DOMAIN rows :
        i < j => /\ rows[i].accumulated_rewards <= rows[j].accumulated_rewards
                 /\ rows[i].accumulated_fees <= rows[j].accumulated_fees

(***************************************************************************)
(* C5 amended.  A later row whose pending stake is at least that of an     *)
(* earlier row carries at least its accumulated rewards, and likewise for  *)
(* pending fees and accumulated fees.                                      *)
(***************************************************************************)
C5_AccumulatedFollowsPending ==
    \A i, j \in DOMAIN rows :
        i < j =>
           /\ (rows[i].pending_rewards <= rows[j].pending_rewards =>
                  rows[i].accumulated_rewards <= rows[j].accumulated_rewards)
           /\ (rows[i].pending_fees <= rows[j].pending_fees =>
                  rows[i].accumulated_fees <= rows[j].accumulated_fees)

\* Rows of two rounds, the later with no less pending stake, the earlier
\* with rewards accumulated.
C5_Witness ==
    \E i, j \in DOMAIN rows :
        /\ i < j /\ rows[i].round < rows[j].round
        /\ rows[i].pending_rewards <= rows[j].pending_rewards
        /\ rows[i].accumulated_rewards > 0

(***************************************************************************)
(* C6.  A round whose block lookup or snapshot fetch fails contributes no  *)
(* row and leaves the previous pending stake and fees as they were; the    *)
(* walk visits every round, and each row's income is measured against the  *)
(* last snapshot observed before its round (the window-start values if     *)
(* there is none).                                                         *)
(***************************************************************************)
C6_FailedRoundIsSkipped ==
    /\ \A k \in Walked :
          ~round_infos[k].ok =>
              RowsOf(k, "pending rewards") = {} /\ RowsOf(k, "pending fees") = {}
    /\ pc = "round_loop" =>
          /\ previous_pending_stake = LastObserved(Len(round_infos), "pending_stake")
          /\ previous_pending_fees = LastObserved(Len(round_infos), "pending_fees")
    /\ (WalkOver /\ pc # "crashed") => Len(round_infos) = Len(rounds)
    /\ \A k \in Walked :
          /\ \A i \in RowsOf(k, "pending rewards") :
                rows[i].amount =
                    round_infos[k].pending_stake - LastObserved(k - 1, "pending_stake")
          /\ \A i \in RowsOf(k, "pending fees") :
                rows[i].amount =
                    round_infos[k].pending_fees - LastObserved(k - 1, "pending_fees")

\* The first round failed, and the second round was processed and emitted a
\* reward row measured against the window-start pending stake.
C6_Witness ==
    /\ Len(round_infos) = 2
    /\ ~round_infos[1].ok
    /\ round_infos[2].ok
    /\ RowsOf(2, "pending rewards") # {}
    /\ pc = "round_loop"

(***************************************************************************)
(* C7.  If the delegator snapshot at the start block or at the end block   *)
(* cannot be obtained, the run aborts: the round walk, the merge and the   *)
(* report are never reached with boundary values put in its place.         *)
(***************************************************************************)
C7_BoundaryFailureIsFatal ==
    (WalkBegun \/ pc = "process_rounds") =>
        /\ (rounds # <<>> => starting_delegator_info.ok)
        /\ ending_delegator_info.ok

(***************************************************************************)
(* C8.  When the getDelegator read raises, fetch_delegator_info reads      *)
(* again, and the failure reaches the caller only once 5 attempts have     *)
(* been made.                                                              *)
(***************************************************************************)
C8_FailureOnlyAfterFiveAttempts ==
    (pc # "fdi" /\ fdi_error = "getDelegator") => fdi_attempts = StopAfterAttempt

(***************************************************************************)
(* C9.  In the merged ledger, two rows of identical timestamp keep the     *)
(* order they had in the concatenation.                                    *)
(***************************************************************************)
C9_MergeIsStable ==
    Merged =>
        \A i, j \in DOMAIN combined_df :
            (i < j /\ combined_df[i].timestamp = combined_df[j].timestamp) =>
                combined_df[i].index < combined_df[j].index

(***************************************************************************)
(* C10.  When every request succeeds, fetch_rounds_in_timeframe asks for   *)
(* the offsets 0, 1000, 2000, ... up to and including the first page       *)
(* shorter than 1000, and returns every round of the window exactly once,  *)
(* in ascending start timestamp.                                           *)
(***************************************************************************)
C10_PagingReturnsEveryRoundOnce ==
    (pc = "start_info" /\ ~rounds_error) =>
        /\ requests = [i \in 1..((indexed \div First) + 1) |-> (i - 1) * First]
        /\ Len(rounds) = indexed
        /\ \A k \in 1..indexed : rounds[k].id = k
        /\ \A k \in 1..(Len(rounds) - 1) :
              rounds[k].startTimestamp < rounds[k + 1].startTimestamp

\* A window of more than two full pages, fetched without error.
C10_Witness ==
    /\ pc = "start_info" /\ ~rounds_error
    /\ indexed > 2 * First
    /\ Len(requests) = 3
    /\ Len(rounds) = indexed

\* The walked round a row of the round walk belongs to.
RoundOf(i) == CHOOSE k \in DOMAIN rounds : rounds[k].id = rows[i].round

(***************************************************************************)
(* C11.  A processed round whose pending stake c is above the previous     *)
(* pending stake p has exactly one reward row; its currency is LPT, its    *)
(* amount c - p, its price the LPT price at that round's own start         *)
(* timestamp, and its value amount * price.                                *)
(***************************************************************************)
C11_RewardRowPricedAtRoundStart ==
    \A k \in Walked :
        (round_infos[k].ok
         /\ round_infos[k].pending_stake > LastObserved(k - 1, "pending_stake")) =>
            /\ Cardinality(RowsOf(k, "pending rewards")) = 1
            /\ \A i \in RowsOf(k, "pending rewards") :
                   /\ rows[i].currency = "LPT"
                   /\ rows[i].amount = round_infos[k].pending_stake
                                         - LastObserved(k - 1, "pending_stake")
                   /\ rows[i].price = PriceTable("LPT", rounds[k].startTimestamp)
                   /\ rows[i].value = rows[i].amount * rows[i].price

\* The second round's pending stake rose and its reward row is in the
\* frame, priced otherwise than a row of the first round would be.
C11_Witness ==
    /\ 2 \in Walked
    /\ round_infos[2].ok
    /\ round_infos[2].pending_stake > LastObserved(1, "pending_stake")
    /\ \E i \in RowsOf(2, "pending rewards") :
           /\ rows[i].amount > 0
           /\ rows[i].price # PriceTable("LPT", rounds[1].startTimestamp)

(***************************************************************************)
(* C12.  On every row the round walk emits, accumulated rewards is         *)
(* max(0, the round's pending stake - the window-start pending stake) and  *)
(* accumulated fees is max(0, the round's pending fees - the window-start  *)
(* pending fees), whatever rounds were skipped before it.                  *)
(***************************************************************************)
C12_AccumulatedIsAgainstWindowStart ==
    \A i \in DOMAIN rows :
        /\ RoundOf(i) \in Walked
        /\ rows[i].accumulated_rewards =
               Max(0, round_infos[RoundOf(i)].pending_stake - starting_pending_stake)
        /\ rows[i].accumulated_fees =
               Max(0, round_infos[RoundOf(i)].pending_fees - starting_pending_fees)

\* The first round was skipped, and the second round's fee row is emitted
\* with a pending stake below the window-start pending stake.
C12_Witness ==
    /\ 2 \in Walked
    /\ ~round_infos[1].ok
    /\ round_infos[2].ok
    /\ round_infos[2].pending_stake < starting_pending_stake
    /\ RowsOf(2, "pending fees") # {}

(***************************************************************************)
(* C13.  A price lookup that fails for one round's row does not end the    *)
(* run: the walk goes on to the remaining rounds.                          *)
(***************************************************************************)
C13_PriceFailureNotFatal == pc # "price_error"

(***************************************************************************)
(* C14.  The balance report gives the wallet's ETH balance, unbonded LPT,  *)
(* pending stake and pending fees as they were in the block at the given   *)
(* timestamp, valued at the prices of that timestamp.                      *)
(***************************************************************************)
C14_ReportIsAsOfTimestamp ==
    pc = "balance_done" =>
        /\ balances.eth_balance = ledger[timestamp].eth
        /\ balances.lpt_unbonded_balance = ledger[timestamp].lpt
        /\ balances.lpt_bonded_balance = ledger[timestamp].pending_stake
        /\ balances.eth_unclaimed_fees = ledger[timestamp].pending_fees
        /\ balances.eth_value = ledger[timestamp].eth * PriceTable("ETH", timestamp)
        /\ balances.lpt_unbonded_value =
               ledger[timestamp].lpt * PriceTable("LPT", timestamp)

\* The sum of the amounts of the rows of one type emitted for the walked
\* rounds 1..k.
RECURSIVE AmountsUpTo(_, _, _)
AmountsUpTo(k, typ, i) ==
    IF i = 0 THEN 0
    ELSE AmountsUpTo(k, typ, i - 1)
         + (IF rows[i].type = typ /\ RoundOf(i) <= k THEN rows[i].amount ELSE 0)

\* The pending amount observed at the processed rounds 1..k never fell,
\* starting from the window-start amount.
NeverFell(k, field) ==
    \A j \in 1..k : round_infos[j].ok =>
        round_infos[j][field] >= LastObserved(j - 1, field)

(***************************************************************************)
(* C15.  For every processed round, the reward-row amounts emitted up to   *)
(* and including it sum to at least the round's accumulated rewards, and   *)
(* to exactly that when the pending stake observed at the processed rounds *)
(* never fell from the window-start pending stake on; the same for fee     *)
(* rows and accumulated fees.                                              *)
(***************************************************************************)
C15_IncomeSumCoversAccumulated ==
    \A k \in Walked : round_infos[k].ok =>
        LET rewards == AmountsUpTo(k, "pending rewards", Len(rows))
            fees == AmountsUpTo(k, "pending fees", Len(rows))
            accumulated_rewards ==
                Max(0, round_infos[k].pending_stake - starting_pending_stake)
            accumulated_fees ==
                Max(0, round_infos[k].pending_fees - starting_pending_fees)
        IN  /\ rewards >= accumulated_rewards
            /\ fees >= accumulated_fees
            /\ NeverFell(k, "pending_stake") => rewards = accumulated_rewards
            /\ NeverFell(k, "pending_fees") => fees = accumulated_fees

\* Two processed rounds: the pending stake fell and rose again, so the
\* reward rows sum to more than the accumulated rewards, while the pending
\* fees rose and never fell, so the fee rows sum to the accumulated fees.
C15_Witness ==
    /\ 2 \in Walked
    /\ round_infos[1].ok /\ round_infos[2].ok
    /\ ~NeverFell(2, "pending_stake")
    /\ AmountsUpTo(2, "pending rewards", Len(rows))
           > Max(0, round_infos[2].pending_stake - starting_pending_stake)
    /\ NeverFell(2, "pending_fees")
    /\ AmountsUpTo(2, "pending fees", Len(rows)) > 0

(***************************************************************************)
(* C16.  fetch_rounds_in_timeframe always returns.  When the request for   *)
(* some page raises, no request is made again or after it, and the result  *)
(* is exactly the rounds of the pages fetched before (none if the first    *)
(* request raised): the list a complete fetch of a shorter window returns, *)
(* so that the caller cannot tell the two apart.                           *)
(***************************************************************************)
C16_FailedPageTruncatesSilently ==
    /\ pc \in {"fetch_rounds", "start_info"}
    /\ (pc = "start_info" /\ rounds_error) =>
          LET fetched == (Len(requests) - 1) * First IN
          /\ requests = [i \in 1..Len(requests) |-> (i - 1) * First]
          /\ fetched <= indexed
          /\ rounds = SubSeq(IndexedRounds(indexed), 1, fetched)
          /\ rounds = fetch_rounds_in_timeframe(fetched, 0).rounds
          /\ ~fetch_rounds_in_timeframe(fetched, 0).error

\* The second request raised in a window of more than one page: the first
\* page alone is returned.
C16_Witness ==
    /\ pc = "start_info" /\ rounds_error
    /\ Len(requests) = 2
    /\ Len(rounds) = First
    /\ indexed > First

====
